---- MODULE Spec2Model ----
(***************************************************************************)
(* Model of the Get-Invoices download orchestration client:               *)
(*   - downloadInvoices (frontend/src/services/api.ts): the fetch, the    *)
(*     read loop and the decoding of the event stream;                    *)
(*   - App (frontend/src/App.tsx): the session state cells and the        *)
(*     handlers checkStatus, handleDownload, handleCancelDownload,        *)
(*     handleSubmitOTP and the challenge dismissal.                       *)
(*                                                                         *)
(* Text is a sequence of tokens.  "E" is the marker 'event: ', "D" the    *)
(* marker 'data: ', "NL" the newline; every other token is an indivisible *)
(* run of characters (an event type name, a JSON payload).  A chunk is a  *)
(* run of consecutive tokens of the stream, so a chunk boundary can fall  *)
(* between two lines, between an event line and its data line, or inside  *)
(* a line (between a marker and what follows it, or before the newline).  *)
(* Accents of the user-visible texts are dropped.                         *)
(***************************************************************************)
EXTENDS Naturals, Sequences, FiniteSets, TLC

\* The session's state cells (App.tsx, useState / useRef)
VARIABLES status, progress, result, loading, error, requiresOTP, otpCode,
          otpError, pendingDownload, abortControllerRef
\* The asynchronous activations: the downloadInvoices calls in flight (one slot
\* per AbortController), the handleSubmitOTP call in flight, the startup checkStatus
VARIABLES jobs, otp, statusCheck
\* History: the last handler step taken (what ran, on what, and what it called), and
\* the params of the download whose OtpRequired failure opened the pending challenge
VARIABLES ev, challenge

cells == <<status, progress, result, loading, error, requiresOTP, otpCode,
           otpError, pendingDownload, abortControllerRef>>
vars == <<status, progress, result, loading, error, requiresOTP, otpCode,
          otpError, pendingDownload, abortControllerRef, jobs, otp, statusCheck,
          ev, challenge>>

\* ------------------------------------------------------------------ bounds
\* longest stream, in events, of the protocol specification SpecStream
MaxEvents == 3
\* download operations in flight at once (superseded ones not yet settled included)
MaxInFlight == 2

\* ------------------------------------------------------------- values
Null == "null"
Params == {"P1", "P2"}

\* JSON payloads: token |-> the object it parses to.
ProgressPayloads == {"p1", "p2"}
DonePayloads == {"d1", "d2"}
\* error payloads: requires_otp is "true", "false" or "absent"
ErrorData ==
  [ eT  |-> [detail |-> "",                  requires_otp |-> "true"],
    eFo |-> [detail |-> "OTP invalide",      requires_otp |-> "false"],
    eAo |-> [detail |-> "2fa code expired",  requires_otp |-> "absent"],
    eAp |-> [detail |-> "Erreur scraper",    requires_otp |-> "absent"] ]
ErrorPayloads == DOMAIN ErrorData
\* a payload that is not JSON
Malformed == "bad"

\* DownloadProgress handed to onProgress: message, and the count shown when it is empty
\* the progress cell when it holds null
NoProgress == [current |-> "null", total |-> "null", message |-> "null"]
ProgressData ==
  [ p1 |-> [current |-> "1", total |-> "2",  message |-> "Facture 1"],
    p2 |-> [current |-> "2", total |-> "-1", message |-> ""] ]

\* an event of the stream: <<type, payload>>
ProgressKinds == {<<"progress", p>> : p \in ProgressPayloads \cup {Malformed}}
DoneKinds == {<<"done", d>> : d \in DonePayloads}
ErrorKinds == {<<"error", e>> : e \in ErrorPayloads}

\* the two lines the backend writes for one event
EventLines(e) == <<"E", e[1], "NL", "D", e[2], "NL">>

RECURSIVE Encode(_)
Encode(events) ==
  IF events = <<>> THEN <<>> ELSE EventLines(Head(events)) \o Encode(Tail(events))

RECURSIVE EventSeqs(_, _)
EventSeqs(kinds, n) ==
  IF n = 0 THEN {<<>>}
  ELSE LET shorter == EventSeqs(kinds, n - 1)
       IN shorter \cup {<<k>> \o s : k \in kinds, s \in {t \in shorter : Len(t) = n - 1}}

\* The backend's streams of at most n events: progress and done events in any
\* order, and an error event, if any, last (the backend ends the job on an error).
BackendEvents(kinds, errors, n) ==
  EventSeqs(kinds, n)
    \cup {Append(es, e) : es \in EventSeqs(kinds, n - 1), e \in errors}

\* streams that go on after an error event
AfterError ==
  {Encode(<<<<"error", "eAp">>, k>>) : k \in {<<"progress", "p1">>, <<"done", "d1">>}}

\* streams cut before the newline of their last line
Unterminated(streams) == {SubSeq(s, 1, Len(s) - 1) : s \in streams \ {<<>>}}

\* the streams of event:/data: line pairs, the last line terminated or not
Streams ==
  {Encode(es) : es \in BackendEvents(ProgressKinds \cup DoneKinds, ErrorKinds, MaxEvents)}
    \cup AfterError
    \cup Unterminated({Encode(es) :
            es \in BackendEvents(ProgressKinds \cup DoneKinds, ErrorKinds, MaxEvents - 1)})
\* the streams the backend answers with in the session: a job that succeeds, one that
\* ends without a result, one that asks for a code, one that fails
SessionStreams ==
  { Encode(<<<<"progress", "p1">>, <<"done", "d1">>>>), Encode(<<<<"progress", "p1">>>>),
    Encode(<<<<"error", "eT">>>>), Encode(<<<<"error", "eAp">>>>) }

\* ---------------------------------------------------- downloadInvoices
NoError == [name |-> "none", message |-> "", requiresOtp |-> FALSE]
Error(message, requiresOtp) ==
  [name |-> "Error", message |-> message, requiresOtp |-> requiresOtp]
AbortError == [name |-> "AbortError", message |-> "The user aborted a request.", requiresOtp |-> FALSE]
FailedToFetch == [name |-> "TypeError", message |-> "Failed to fetch", requiresOtp |-> FALSE]
NoResultMessage == "Telechargement termine sans resultat"

\* buffer.split('\n')
RECURSIVE split(_)
split(s) ==
  IF \A i \in 1..Len(s) : s[i] # "NL" THEN <<s>>
  ELSE LET i == CHOOSE i \in 1..Len(s) : s[i] = "NL" /\ \A k \in 1..(i - 1) : s[k] # "NL"
       IN <<SubSeq(s, 1, i - 1)>> \o split(SubSeq(s, i + 1, Len(s)))

startsWith(line, marker) == Len(line) >= 1 /\ line[1] = marker

\* JSON.parse(line.slice(6)) succeeds
IsJSON(raw) ==
  Len(raw) = 1 /\ raw[1] \in ProgressPayloads \cup DonePayloads \cup ErrorPayloads

\* the DownloadProgress built from data.current ?? 0, data.total ?? -1, data.message ?? ''
ProgressOf(tok) ==
  IF tok \in ProgressPayloads THEN ProgressData[tok]
  ELSE [current |-> "0", total |-> "-1", message |-> ""]

\* (data.detail as string) || 'Erreur'
DetailOf(tok) ==
  IF tok \in ErrorPayloads /\ ErrorData[tok].detail # "" THEN ErrorData[tok].detail
  ELSE "Erreur"

\* /2FA|OTP/i.test(detail)
SniffOtp(detail) == detail \in {"OTP invalide", "2fa code expired"}

\* (data.requires_otp as boolean) || /2FA|OTP/i.test(detail)
RequiresOtpOf(tok) ==
  (tok \in ErrorPayloads /\ ErrorData[tok].requires_otp = "true") \/ SniffOtp(DetailOf(tok))

\* (mutant) the SyntaxError of JSON.parse is not caught
processLineRethrows(st, line) ==
  IF startsWith(line, "E") THEN [st EXCEPT !.eventType = Tail(line)]
  ELSE IF startsWith(line, "D") /\ st.eventType # <<>> THEN
    LET raw == Tail(line)
        seen == [st EXCEPT !.processed = Append(@, <<st.eventType, raw>>)]
    IN IF ~IsJSON(raw) THEN [seen EXCEPT !.thrown = Error("Unexpected token", FALSE)]
       ELSE IF st.eventType = <<"progress">> THEN
         [seen EXCEPT !.calls = Append(@, ProgressOf(raw[1]))]
       ELSE IF st.eventType = <<"done">> THEN [seen EXCEPT !.lastResult = raw[1]]
       ELSE IF st.eventType = <<"error">> THEN
         [seen EXCEPT !.thrown = Error(DetailOf(raw[1]), RequiresOtpOf(raw[1]))]
       ELSE seen
  ELSE st

\* One line of the for loop.  st is the loop's state: the current event type, the
\* recorded result, the onProgress calls made and the (event type, payload) pairs
\* that reached the try block so far, and the error thrown, if any.
processLine(st, line) ==
  IF startsWith(line, "E") THEN [st EXCEPT !.eventType = Tail(line)]
  ELSE IF startsWith(line, "D") /\ st.eventType # <<>> THEN
    LET raw == Tail(line)
        seen == [st EXCEPT !.processed = Append(@, <<st.eventType, raw>>)]
    IN IF ~IsJSON(raw) THEN seen
       ELSE IF st.eventType = <<"progress">> THEN
         [seen EXCEPT !.calls = Append(@, ProgressOf(raw[1]))]
       ELSE IF st.eventType = <<"done">> THEN [seen EXCEPT !.lastResult = raw[1]]
       ELSE IF st.eventType = <<"error">> THEN
         [seen EXCEPT !.thrown = Error(DetailOf(raw[1]), RequiresOtpOf(raw[1]))]
       ELSE seen
  ELSE st

\* (mutant) the loop goes on after the throw
RECURSIVE forLinesAfterThrow(_, _)
forLinesAfterThrow(st, lines) ==
  IF lines = <<>> THEN st
  ELSE forLinesAfterThrow(processLine(st, Head(lines)), Tail(lines))

RECURSIVE forLines(_, _)
forLines(st, lines) ==
  IF lines = <<>> \/ st.thrown # NoError THEN st
  ELSE forLines(processLine(st, Head(lines)), Tail(lines))

\* (mutant) the last piece of the split is processed as a line too
whileBodyWholeBuffer(job, chunk) ==
  LET lines == split(job.buffer \o chunk)
      st == forLines([eventType |-> <<>>,
                      lastResult |-> job.lastResult, calls |-> job.calls,
                      processed |-> job.processed, thrown |-> NoError], lines)
  IN [job EXCEPT !.buffer = <<>>,
                 !.lastResult = st.lastResult, !.calls = st.calls,
                 !.processed = st.processed, !.thrown = st.thrown,
                 !.pos = @ + Len(chunk)]

\* One turn of the while loop on a chunk that reader.read() delivered.
whileBody(job, chunk) ==
  LET lines == split(job.buffer \o chunk)
      st == forLines([eventType |-> <<>>,
                      lastResult |-> job.lastResult, calls |-> job.calls,
                      processed |-> job.processed, thrown |-> NoError],
                     SubSeq(lines, 1, Len(lines) - 1))
  IN [job EXCEPT !.buffer = lines[Len(lines)],
                 !.lastResult = st.lastResult, !.calls = st.calls,
                 !.processed = st.processed, !.thrown = st.thrown,
                 !.pos = @ + Len(chunk)]

\* the operation's job record before any chunk
FreeJob ==
  [pc |-> "free", params |-> Null, aborted |-> FALSE, cancel |-> "none",
   stream |-> <<>>, pos |-> 0, buffer |-> <<>>,
   lastResult |-> Null, calls |-> <<>>, processed |-> <<>>, thrown |-> NoError]

\* the whole stream delivered as one chunk
OneChunk(stream) == whileBody([FreeJob EXCEPT !.stream = stream], stream)

\* ---------------------------------------------------------------- App
Slots == 1..MaxInFlight
OtpCodes == {<<>>, <<"1", "2", "3">>, <<"1", "2", "3", "4">>}
MinOtpLength == 4

\* pending: the pendingDownload that the running handleSubmitOTP closed over;
\* challenge: the history variable's value when it was called
OtpIdle == [pc |-> "idle", pending |-> Null, job |-> 0, challenge |-> Null]

\* what a handler step reports of itself
Event(op) ==
  [op |-> op, params |-> Null, cancel |-> "none", err |-> NoError, response |-> Null,
   stream |-> <<>>, phase |-> "none", calls |-> <<>>, processed |-> <<>>,
   started |-> <<>>, submitted |-> 0, resumed |-> FALSE,
   pending |-> Null, challenge |-> Null]

Init ==
  /\ status = "Verification..."
  /\ progress = NoProgress
  /\ result = Null
  /\ loading = FALSE
  /\ error = Null
  /\ requiresOTP = FALSE
  /\ otpCode = <<>>
  /\ otpError = Null
  /\ pendingDownload = Null
  /\ abortControllerRef = 0
  /\ jobs = [j \in Slots |-> FreeJob]
  /\ otp = OtpIdle
  /\ statusCheck = "pending"
  /\ ev = Event("mount")
  /\ challenge = Null

\* ---- checkStatus
StatusOutcomes == {"ready", "otp_required", "ERR_NETWORK", "error"}

checkStatus(outcome) ==
  /\ statusCheck = "pending"
  /\ statusCheck' = "done"
  /\ status' = CASE outcome = "ready" -> "Pret"
                 [] outcome = "otp_required" -> "Code 2FA requis par Amazon"
                 [] outcome = "ERR_NETWORK" -> "Backend injoignable"
                 [] OTHER -> "Erreur de connexion au serveur"
  /\ requiresOTP' = IF outcome = "otp_required" THEN TRUE ELSE requiresOTP
  /\ ev' = Event("checkStatus")
  /\ UNCHANGED <<progress, result, loading, error, otpCode, otpError,
                 pendingDownload, abortControllerRef, jobs, otp, challenge>>

\* ---- handleDownload, up to the await of fetch
FreeSlots == {j \in Slots : jobs[j].pc = "free"}
FreeSlot == CHOOSE j \in FreeSlots : \A k \in FreeSlots : j <= k

\* (mutant) the previous handle is left alone
abortNothing(job, by) == job

\* controller.abort(): by is "operator" or "superseded"
abort(job, by) ==
  IF job.aborted \/ job.pc = "free" THEN job
  ELSE [job EXCEPT !.aborted = TRUE, !.cancel = by]

\* (mutant) the signal is not handed to fetch
SignalNotPassed(job) == FALSE

\* The signal handed to fetch: whether the pending fetch or read sees the abort.
Signalled(job) == job.aborted

handleDownload(params) ==
  /\ jobs' = [j \in Slots |->
                IF j = FreeSlot THEN [FreeJob EXCEPT !.pc = "fetch", !.params = params]
                ELSE IF j = abortControllerRef THEN abort(jobs[j], "superseded")
                ELSE jobs[j]]
  /\ abortControllerRef' = FreeSlot
  /\ loading' = TRUE
  /\ error' = Null
  /\ result' = Null
  /\ progress' = NoProgress
  /\ requiresOTP' = FALSE
  /\ otpError' = Null
  /\ status' = "Connexion en cours"
  /\ challenge' = Null

\* DownloadForm is not among the sources: as the specification has it, the operator
\* can start a download while one is in flight (the form calls onDownload whatever
\* its loading prop).
onDownloadWhileLoading == TRUE

\* The operator submits the download form, shown while no challenge is pending.
StartDownload(params) ==
  /\ ~requiresOTP
  /\ loading => onDownloadWhileLoading
  /\ FreeSlots # {}
  /\ handleDownload(params)
  /\ ev' = [Event("handleDownload") EXCEPT !.params = params, !.started = <<params>>]
  /\ UNCHANGED <<otpCode, pendingDownload, otp, statusCheck>>

\* ---- handleCancelDownload: the cancel button, shown while loading and no challenge
handleCancelDownload ==
  /\ ~requiresOTP
  /\ loading
  /\ jobs' = [j \in Slots |->
                IF j = abortControllerRef THEN abort(jobs[j], "operator") ELSE jobs[j]]
  /\ ev' = Event("handleCancelDownload")
  /\ UNCHANGED <<cells, otp, statusCheck, challenge>>

\* ---- handleDownload, after the await: the try's tail, the catch and the finally.
\* When handleSubmitOTP awaits this call, its own tail runs in the same turn.
IncludesFailedToFetch(message) == message = "Failed to fetch"
IncludesTimeout(message) == message = "Read timeout"
IsOtpError(err) == err # NoError /\ err.name # "AbortError" /\ err.requiresOtp
Awaited(j) == otp.pc = "download" /\ otp.job = j

\* setPendingDownload in the catch of handleDownload and after the await of handleSubmitOTP
PendingAfter(j, job, err) ==
  IF Awaited(j) THEN Null
  ELSE IF IsOtpError(err) THEN job.params
  ELSE pendingDownload

\* (mutant) the catch does not tell an AbortError from another error
StatusAfterNoAbortBranch(err) ==
  CASE err = NoError -> "Telechargement termine"
    [] IsOtpError(err) -> "Code 2FA requis"
    [] OTHER -> "Erreur lors du telechargement"

\* setStatus in the try's tail and in the catch
StatusAfter(err) ==
  CASE err = NoError -> "Telechargement termine"
    [] err.name = "AbortError" -> "Telechargement annule"
    [] IsOtpError(err) -> "Code 2FA requis"
    [] IncludesFailedToFetch(err.message) -> "Erreur reseau"
    [] IncludesTimeout(err.message) -> "Timeout"
    [] OTHER -> "Erreur lors du telechargement"

\* setError in the catch
ErrorAfter(err) ==
  CASE err = NoError -> error
    [] err.name = "AbortError" -> Null
    [] IsOtpError(err) ->
         IF err.message # "" THEN err.message ELSE "Code 2FA requis. Veuillez saisir le code."
    [] IncludesFailedToFetch(err.message) -> "Impossible de joindre le backend."
    [] OTHER -> err.message

settled(j, job, err) ==
  /\ progress' = NoProgress
  /\ result' = IF err = NoError THEN job.lastResult ELSE result
  /\ status' = StatusAfter(err)
  /\ error' = ErrorAfter(err)
  /\ requiresOTP' = IF err = NoError THEN FALSE
                    ELSE IF IsOtpError(err) THEN TRUE
                    ELSE requiresOTP
  /\ pendingDownload' = PendingAfter(j, job, err)
  /\ loading' = FALSE
  /\ abortControllerRef' = IF abortControllerRef = j THEN 0 ELSE abortControllerRef
  /\ otp' = IF Awaited(j) THEN OtpIdle ELSE otp
  /\ jobs' = [jobs EXCEPT ![j] = FreeJob]
  /\ ev' = [Event("settled") EXCEPT !.params = job.params, !.cancel = job.cancel,
              !.err = err, !.response = IF err = NoError THEN job.lastResult ELSE Null,
              !.stream = job.stream, !.phase = job.pc, !.calls = job.calls, !.processed = job.processed,
              !.resumed = Awaited(j)]
  /\ challenge' = IF err = NoError THEN Null
                  ELSE IF IsOtpError(err) THEN job.params
                  ELSE challenge
  /\ UNCHANGED <<otpCode, otpError, statusCheck>>

\* ---- downloadInvoices: the await of fetch
HttpFailures == {"401", "500", "empty", "network"}

respondStream(j, streams) ==
  /\ jobs[j].pc = "fetch"
  /\ ~Signalled(jobs[j])
  /\ \E stream \in streams :
       jobs' = [jobs EXCEPT ![j] = [@ EXCEPT !.pc = "read", !.stream = stream]]
  /\ ev' = [Event("response") EXCEPT !.params = jobs[j].params]
  /\ UNCHANGED <<cells, otp, statusCheck, challenge>>

respondFailure(j, kind) ==
  /\ jobs[j].pc = "fetch"
  /\ ~Signalled(jobs[j])
  /\ settled(j, jobs[j],
             CASE kind = "401" -> Error("", TRUE)
               [] kind = "500" -> Error("Read timeout", FALSE)
               [] kind = "empty" -> Error("Reponse vide", FALSE)
               [] OTHER -> FailedToFetch)

\* ---- downloadInvoices: one reader.read() that delivers the next k tokens
onProgressStatus(p) == IF p.message # "" THEN p.message ELSE p.current

read(j) ==
  /\ jobs[j].pc = "read"
  /\ ~Signalled(jobs[j])
  /\ \E k \in 1..(Len(jobs[j].stream) - jobs[j].pos) :
     LET job == jobs[j]
         after == whileBody(job, SubSeq(job.stream, job.pos + 1, job.pos + k))
     IN IF after.thrown # NoError THEN settled(j, after, after.thrown)
        ELSE /\ jobs' = [jobs EXCEPT ![j] = after]
             /\ IF Len(after.calls) > Len(job.calls)
                  THEN /\ progress' = after.calls[Len(after.calls)]
                       /\ status' = onProgressStatus(after.calls[Len(after.calls)])
                  ELSE UNCHANGED <<progress, status>>
             /\ ev' = [Event("read") EXCEPT !.params = job.params]
             /\ UNCHANGED <<result, loading, error, requiresOTP, otpCode, otpError,
                            pendingDownload, abortControllerRef, otp, statusCheck,
                            challenge>>

\* ---- downloadInvoices: the reader.read() that reports the end of the stream
\* (mutant) the loop's exit returns whatever was recorded
returnWithoutTest(job) == NoError

\* if (!lastResult) throw ...; return lastResult
returnLastResult(job) ==
  IF job.lastResult = Null THEN Error(NoResultMessage, FALSE) ELSE NoError

readEnd(j) ==
  /\ jobs[j].pc = "read"
  /\ ~Signalled(jobs[j])
  /\ jobs[j].pos = Len(jobs[j].stream)
  /\ settled(j, jobs[j], returnLastResult(jobs[j]))

\* ---- downloadInvoices: the pending fetch or read rejects once the signal is aborted
abortSettled(j) ==
  /\ jobs[j].pc \in {"fetch", "read"}
  /\ Signalled(jobs[j])
  /\ settled(j, jobs[j], AbortError)

\* ---- the challenge form, shown while requiresOTP; its controls are disabled while loading
setOtpCode(code) ==
  /\ requiresOTP
  /\ ~loading
  /\ code # otpCode
  /\ otpCode' = code
  /\ ev' = Event("setOtpCode")
  /\ UNCHANGED <<status, progress, result, loading, error, requiresOTP, otpError,
                 pendingDownload, abortControllerRef, jobs, otp, statusCheck, challenge>>

\* the "Annuler" button of the challenge form
dismissChallenge ==
  /\ requiresOTP
  /\ ~loading
  /\ requiresOTP' = FALSE
  /\ otpCode' = <<>>
  /\ otpError' = Null
  /\ pendingDownload' = Null
  /\ ev' = Event("dismissChallenge")
  /\ challenge' = Null
  /\ UNCHANGED <<status, progress, result, loading, error, abortControllerRef,
                 jobs, otp, statusCheck>>

\* ---- handleSubmitOTP, up to the await of submitOTP
\* (mutant) the length test is off by one
TooShortOffByOne(code) == code = <<>> \/ Len(code) < MinOtpLength - 1

\* !otpCode || otpCode.length < 4
TooShort(code) == code = <<>> \/ Len(code) < MinOtpLength

handleSubmitOTP ==
  /\ requiresOTP
  /\ ~loading
  /\ otp.pc = "idle"
  /\ IF TooShort(otpCode)
       THEN /\ otpError' = "Le code doit contenir au moins 4 caracteres"
            /\ ev' = Event("handleSubmitOTP")
            /\ UNCHANGED <<loading, otp>>
       ELSE /\ otpError' = Null
            /\ loading' = TRUE
            /\ otp' = [pc |-> "submit", pending |-> pendingDownload, job |-> 0,
                        challenge |-> challenge]
            /\ ev' = [Event("handleSubmitOTP") EXCEPT !.submitted = 1]
  /\ UNCHANGED <<status, progress, result, error, requiresOTP, otpCode,
                 pendingDownload, abortControllerRef, jobs, statusCheck, challenge>>

\* ---- handleSubmitOTP, after the await of submitOTP
OtpResponses ==
  {[success |-> ok, requires_otp |-> more, message |-> IF ok THEN "" ELSE "Code refuse"] :
     ok \in BOOLEAN, more \in BOOLEAN}

\* response.success && !response.requires_otp
Accepted(response) == response.success /\ ~response.requires_otp

submitOTPResponded(response) ==
  /\ otp.pc = "submit"
  /\ IF Accepted(response)
       THEN /\ otpCode' = <<>>
            /\ IF otp.pending # Null
                 THEN /\ FreeSlots # {}
                      /\ handleDownload(otp.pending)
                      /\ otp' = [otp EXCEPT !.pc = "download", !.job = FreeSlot]
                      /\ ev' = [Event("submitOTPResponded") EXCEPT
                                  !.response = "accepted", !.started = <<otp.pending>>,
                                  !.resumed = TRUE, !.pending = pendingDownload,
                                  !.challenge = otp.challenge]
                      /\ UNCHANGED pendingDownload
                 ELSE /\ requiresOTP' = FALSE
                      /\ status' = "Code OTP accepte"
                      /\ loading' = FALSE
                      /\ otp' = OtpIdle
                      /\ ev' = [Event("submitOTPResponded") EXCEPT
                                  !.response = "accepted", !.pending = pendingDownload,
                                  !.challenge = otp.challenge]
                      /\ challenge' = Null
                      /\ UNCHANGED <<progress, result, error, otpError, pendingDownload,
                                     abortControllerRef, jobs>>
       ELSE /\ otpError' = IF response.message # "" THEN response.message
                           ELSE "Code OTP incorrect ou expire"
            /\ requiresOTP' = response.requires_otp
            /\ loading' = FALSE
            /\ otp' = OtpIdle
            /\ ev' = [Event("submitOTPResponded") EXCEPT
                        !.response = "refused", !.pending = pendingDownload,
                        !.challenge = otp.challenge]
            /\ challenge' = IF response.requires_otp THEN challenge ELSE Null
            /\ UNCHANGED <<status, progress, result, error, otpCode, pendingDownload,
                           abortControllerRef, jobs>>
  /\ UNCHANGED statusCheck

\* the call to submitOTP itself fails
submitOTPFailed ==
  /\ otp.pc = "submit"
  /\ otpError' = "Network Error"
  /\ loading' = FALSE
  /\ otp' = OtpIdle
  /\ ev' = [Event("submitOTPFailed") EXCEPT !.err = Error("Network Error", FALSE),
              !.pending = pendingDownload, !.challenge = otp.challenge]
  /\ UNCHANGED <<status, progress, result, error, requiresOTP, otpCode,
                 pendingDownload, abortControllerRef, jobs, statusCheck, challenge>>

\* ------------------------------------------------------ specifications
\* An abort rejects the pending fetch or read at once, and the handlers of a rejected
\* promise run when the current task ends, before the handler of any other event.
RejectionPending == \E j \in Slots : jobs[j].pc # "free" /\ Signalled(jobs[j])

\* The session's events: every handler, the backend answering with the session's streams.
Task ==
  \/ \E outcome \in StatusOutcomes : checkStatus(outcome)
  \/ \E params \in Params : StartDownload(params)
  \/ handleCancelDownload
  \/ \E j \in Slots : respondStream(j, SessionStreams)
  \/ \E j \in Slots : \E kind \in HttpFailures : respondFailure(j, kind)
  \/ \E j \in Slots : read(j)
  \/ \E j \in Slots : readEnd(j)
  \/ \E code \in OtpCodes : setOtpCode(code)
  \/ dismissChallenge
  \/ handleSubmitOTP
  \/ \E response \in OtpResponses : submitOTPResponded(response)
  \/ submitOTPFailed

Next ==
  \/ \E j \in Slots : abortSettled(j)
  \/ ~RejectionPending /\ Task

Spec == Init /\ [][Next]_vars

\* The session with the scheduling the platform guarantees: the handlers of a
\* rejected promise do run.
SpecFair == Spec /\ WF_vars(\E j \in Slots : abortSettled(j))

\* The protocol client alone: one download, the first thing the operator does, from
\* its start to its settlement, the backend answering with any stream of well-formed
\* line pairs.
StartFirst(params) == ev.op = "mount" /\ StartDownload(params)

TaskStream ==
  \/ StartFirst("P1")
  \/ handleCancelDownload
  \/ \E j \in Slots : respondStream(j, Streams)
  \/ \E j \in Slots : \E kind \in HttpFailures : respondFailure(j, kind)
  \/ \E j \in Slots : read(j)
  \/ \E j \in Slots : readEnd(j)
  \/ dismissChallenge

NextStream ==
  \/ \E j \in Slots : abortSettled(j)
  \/ ~RejectionPending /\ TaskStream

SpecStream == Init /\ [][NextStream]_vars

\* ============================================================== claims
\* the download operation that the last step settled, not cancelled
SettledUncancelled == ev.op = "settled" /\ ev.cancel = "none"

\* C1: however the bytes of a stream of well-formed line pairs are split into
\* chunks, the decoding loop processes the same (event type, payload) pairs, in the
\* same order, as when the whole stream arrives as one chunk.
C1_ChunkingInvariance ==
  SettledUncancelled => ev.processed = OneChunk(ev.stream).processed

\* C2: after a download started with params P failed with OtpRequired, a challenge
\* submission made then and accepted (success, no further code required) re-invokes
\* the download exactly once, with P.
C2_ResumesWithOriginalParams ==
  (ev.op = "submitOTPResponded" /\ ev.response = "accepted" /\ ev.challenge # Null)
    => ev.started = <<ev.challenge>>

\* C3: whenever a download fails with OtpRequired, a resumed one included, once its
\* handlers have finished the session is ChallengePending and the pending params are
\* those of the download that failed.
C3_OtpFailureKeepsParams ==
  (ev.op = "settled" /\ IsOtpError(ev.err))
    => (requiresOTP /\ pendingDownload = ev.params)

\* the payload of the error event the loop processed last, "" if it was no error event
LastErrorPayload ==
  IF ev.processed # <<>> /\ ev.processed[Len(ev.processed)][1] = <<"error">>
       /\ IsJSON(ev.processed[Len(ev.processed)][2])
    THEN ev.processed[Len(ev.processed)][2][1]
    ELSE ""

\* C4: an error event whose requires_otp is explicitly false fails the download with
\* an error that does not require a code and carries the detail, whatever the detail
\* says.
C4_ExplicitFalseWins ==
  (SettledUncancelled /\ LastErrorPayload \in ErrorPayloads
     /\ ErrorData[LastErrorPayload].requires_otp = "false")
    => ev.err = Error(DetailOf(LastErrorPayload), FALSE)

\* the events a stream of well-formed line pairs is made of
Events(stream) ==
  [i \in 1..(Len(stream) \div 6) |-> <<stream[6 * (i - 1) + 2], stream[6 * (i - 1) + 5]>>]

\* the payload of the stream's error event, "" if it has none
StreamErrorPayload(stream) ==
  LET es == Events(stream)
  IN IF es # <<>> /\ es[Len(es)][1] = "error" THEN es[Len(es)][2] ELSE ""

\* C5: a stream's error event fails the download with OtpRequired when its
\* requires_otp is true and, when it is absent, exactly when the detail says 2FA or
\* OTP, otherwise with the detail as an application error; when the error event is
\* the first event, onProgress is never invoked.
C5_ErrorEventClassified ==
  LET tok == StreamErrorPayload(ev.stream)
  IN (SettledUncancelled /\ tok \in ErrorPayloads
        /\ ErrorData[tok].requires_otp \in {"true", "absent"})
       => /\ ev.err = Error(DetailOf(tok),
                            ErrorData[tok].requires_otp = "true" \/ SniffOtp(DetailOf(tok)))
          /\ (Len(Events(ev.stream)) = 1 => ev.calls = <<>>)

\* a stream of N progress events, each with a JSON payload, followed by one done event
ProgressThenDone(stream) ==
  LET es == Events(stream)
  IN /\ es # <<>>
     /\ es[Len(es)][1] = "done"
     /\ \A i \in 1..(Len(es) - 1) : es[i][1] = "progress" /\ es[i][2] \in ProgressPayloads

\* C6: on a stream of N progress events followed by one done event, onProgress is
\* invoked exactly N times, in the order of the stream, and the download resolves
\* with the done payload.
C6_ProgressThenDone ==
  (SettledUncancelled /\ ProgressThenDone(ev.stream))
    => LET es == Events(ev.stream)
       IN /\ ev.err = NoError
          /\ ev.response = es[Len(es)][2]
          /\ ev.calls = [i \in 1..(Len(es) - 1) |-> ProgressOf(es[i][2])]

\* C7: a challenge submission that is refused (success false, or a further code
\* required) or whose call fails leaves the session ChallengePending with the pending
\* params kept and the challenge error set, and starts no download.
C7_RefusedStaysPending ==
  ((ev.op = "submitOTPResponded" /\ ev.response = "refused") \/ ev.op = "submitOTPFailed")
    => /\ requiresOTP
       /\ pendingDownload = ev.pending
       /\ otpError # Null
       /\ ev.started = <<>>

ValidationError == "Le code doit contenir au moins 4 caracteres"

\* C8: submitting a code of fewer than 4 characters, the empty one included, sets the
\* validation error and calls neither submitOTP nor downloadInvoices; the phase, the
\* loading flag, the pending params and the cancellation handle stay as they were.
C8_ShortCodeOnlyValidationError ==
  [][(ev'.op = "handleSubmitOTP" /\ Len(otpCode) < 4)
       => /\ otpError' = ValidationError
          /\ ev'.submitted = 0
          /\ ev'.started = <<>>
          /\ UNCHANGED <<status, progress, result, loading, error, requiresOTP, otpCode,
                         pendingDownload, abortControllerRef, jobs, otp>>]_vars

C8_Witness ==
  /\ ev.op = "handleSubmitOTP"
  /\ Len(otpCode) = 3
  /\ otpError = ValidationError
  /\ pendingDownload # Null

\* C9: once cancellation is requested, before the first chunk or while the loop
\* awaits one, the download reads nothing more, invokes onProgress no more and
\* settles as Cancelled (AbortError).
C9_CancelStopsReading ==
  [][\A j \in Slots :
       (jobs[j].pc # "free" /\ jobs[j].aborted)
         => /\ jobs'[j].pc = "free"
            /\ ev'.op = "settled"
            /\ ev'.err = AbortError
            /\ ev'.calls = jobs[j].calls
            /\ (jobs[j].pc = "fetch" => ev'.calls = <<>>)]_vars

C9_Witness ==
  /\ ev.op = "settled"
  /\ ev.cancel = "operator"
  /\ ev.err = AbortError
  /\ ev.calls # <<>>
  /\ Len(ev.stream) > 6

\* C10: the operator's cancel only requests the cancellation (the handle is aborted,
\* no cell changes); the download then settles as Cancelled, never as Completed or
\* Failed, with the error cleared and the status text set.
CancelRequested == \E j \in Slots : jobs[j].pc # "free" /\ jobs[j].cancel = "operator"

C10_CancelRequestedThenCancelled ==
  /\ [][/\ ev'.op = "handleCancelDownload"
             => /\ UNCHANGED cells
                /\ abortControllerRef # 0 => jobs'[abortControllerRef].aborted
        /\ (ev'.op = "settled" /\ ev'.cancel = "operator")
             => /\ ev'.err = AbortError
                /\ ev'.response = Null
                /\ error' = Null
                /\ result' = Null
                /\ status' = "Telechargement annule"]_vars
  /\ CancelRequested ~> (ev.op = "settled" /\ ev.cancel = "operator")

C10_Witness ==
  /\ ev.op = "settled"
  /\ ev.cancel = "operator"
  /\ status = "Telechargement annule"
  /\ error = Null

\* the downloads in flight whose cancellation has not been requested
Running == {j \in Slots : jobs[j].pc # "free" /\ ~jobs[j].aborted}

\* C11: at every moment at most one download whose cancellation has not been
\* requested is in flight, and it is the one the stored cancellation handle belongs
\* to: a new download aborts the handle stored before it.
C11_AtMostOneRunning ==
  /\ Cardinality(Running) <= 1
  /\ Running \subseteq {abortControllerRef}

C11_Witness ==
  \E j, k \in Slots :
    /\ jobs[j].pc # "free" /\ jobs[j].cancel = "superseded"
    /\ jobs[k].pc # "free" /\ ~jobs[k].aborted
    /\ abortControllerRef = k

\* the pairs of a given event type, with a JSON payload, among those processed
PairsOf(processed, type) ==
  {i \in 1..Len(processed) : processed[i][1] = <<type>> /\ IsJSON(processed[i][2])}

\* the download that the step settles failed on an error event of its stream
FailedOnErrorEvent(e) ==
  /\ e.op = "settled" /\ e.phase = "read"
  /\ e.err \notin {NoError, AbortError, Error(NoResultMessage, FALSE)}

\* C12: onProgress is invoked only by a download that is reading its stream and
\* has not settled: not before the stream is opened, not once cancellation made it
\* settle, not after the stream's end, and not for the events that follow the error
\* event that failed it.
C12_NoProgressAfterSettle ==
  [][/\ (progress' # progress /\ progress' # NoProgress)
          => /\ ev'.op = "read"
             /\ \E j \in Slots :
                  /\ jobs[j].pc = "read" /\ ~jobs[j].aborted /\ jobs'[j].pc = "read"
                  /\ Len(jobs'[j].calls) > Len(jobs[j].calls)
                  /\ progress' = jobs'[j].calls[Len(jobs'[j].calls)]
     /\ \A j \in Slots :
          (jobs[j].pc # "read" \/ jobs[j].aborted)
            => /\ jobs'[j].calls \in {<<>>, jobs[j].calls}
               /\ (jobs[j].pc # "free" /\ jobs'[j].pc = "free") => ev'.calls = jobs[j].calls
     /\ \A j \in Slots :
          (jobs[j].pc = "read" /\ jobs'[j].pc = "free" /\ ev'.err \in {NoError, Error(NoResultMessage, FALSE)})
            => ev'.calls = jobs[j].calls
     /\ FailedOnErrorEvent(ev')
          => /\ PairsOf(ev'.processed, "error") = {Len(ev'.processed)}
             /\ Len(ev'.calls) = Cardinality(PairsOf(ev'.processed, "progress"))]_vars

C12_Witness ==
  /\ ev.op = "settled"
  /\ ev.stream = Encode(<<<<"error", "eAp">>, <<"progress", "p1">>>>)
  /\ ev.err = Error("Erreur scraper", FALSE)
  /\ ev.calls = <<>>

\* the download that the last step settled read its stream to the end
ReadToEnd ==
  /\ SettledUncancelled /\ ev.phase = "read"
  /\ ~FailedOnErrorEvent(ev)

\* C13: when the stream ends and no done payload was recorded, the download fails
\* with NoResult; it resolves only with a recorded done payload.
C13_NoDoneNoResult ==
  /\ (ReadToEnd /\ PairsOf(ev.processed, "done") = {})
       => (ev.err = Error(NoResultMessage, FALSE) /\ ev.response = Null)
  /\ (ev.op = "settled" /\ ev.err = NoError)
       => (PairsOf(ev.processed, "done") # {} /\ ev.response \in DonePayloads)

C13_Witness ==
  /\ ReadToEnd
  /\ ev.stream = Encode(<<<<"progress", "p1">>, <<"progress", "p2">>>>)
  /\ Len(ev.calls) = 2
  /\ ev.err = Error(NoResultMessage, FALSE)

\* the stream's last line has no newline
LastLineUnterminated(stream) == stream # <<>> /\ stream[Len(stream)] # "NL"

\* the event whose data line is the unterminated last line
TrailingEvent(stream) == <<stream[Len(stream) - 3], stream[Len(stream)]>>

Occurrences(seq, x) == Cardinality({i \in 1..Len(seq) : seq[i] = x})

\* C14: a last line without newline produces no event when the stream ends: the
\* pair it would complete is not processed, it triggers no onProgress call, records
\* no result and raises no error; a stream whose only done line is that line ends in
\* NoResult.
C14_TrailingLineDiscarded ==
  (SettledUncancelled /\ ev.phase = "read" /\ LastLineUnterminated(ev.stream))
    => LET es == Events(ev.stream)
           last == TrailingEvent(ev.stream)
           types == {es[i][1] : i \in 1..Len(es)}
       IN /\ Occurrences(ev.processed, <<<<last[1]>>, <<last[2]>>>>) <= Occurrences(es, last)
          /\ Len(ev.calls) <= Cardinality({i \in 1..Len(es) :
                                            es[i][1] = "progress" /\ es[i][2] \in ProgressPayloads})
          /\ ev.err = NoError
               => \E i \in 1..Len(es) : es[i][1] = "done" /\ es[i][2] = ev.response
          /\ FailedOnErrorEvent(ev) => "error" \in types
          /\ types \cap {"done", "error"} = {} => ev.err = Error(NoResultMessage, FALSE)

C14_Witness ==
  /\ ReadToEnd
  /\ ev.stream = <<"E", "progress", "NL", "D", "p1", "NL", "E", "done", "NL", "D", "d1">>
  /\ Len(ev.calls) = 1
  /\ ev.err = Error(NoResultMessage, FALSE)

\* no download and no challenge submission is in flight
Quiet == (\A j \in Slots : jobs[j].pc = "free") /\ otp.pc = "idle"

\* C15: whenever the session is Idle or has settled in Completed, Failed or Cancelled
\* (nothing in flight, no challenge pending), no pending params are stored.
C15_PendingOnlyForChallenge ==
  (Quiet /\ ~requiresOTP) => pendingDownload = Null

\* a done event of the stream is followed by another event
EventAfterDone(stream) ==
  LET es == Events(stream)
  IN \E i \in 1..(Len(es) - 1) : es[i][1] = "done"

IsProgressEvent(e) == e[1] = "progress" /\ e[2] \in ProgressPayloads
IsDoneEvent(e) == e[1] = "done"
IsErrorEvent(e) == e[1] = "error"

\* C16: a done event does not stop the loop.  On a stream where events follow a done
\* event: every progress event, those after the done included, invokes onProgress, in
\* order; an error event after the done fails the download with its detail; without
\* an error event the download resolves, when the stream ends, with the payload of
\* the last done event.
C16_DoneDoesNotStopReading ==
  (SettledUncancelled /\ ev.phase = "read" /\ EventAfterDone(ev.stream))
    => LET es == Events(ev.stream)
           before == IF SelectSeq(es, IsErrorEvent) = <<>> THEN es
                     ELSE SubSeq(es, 1, (CHOOSE i \in 1..Len(es) :
                            IsErrorEvent(es[i]) /\ \A k \in 1..(i - 1) : ~IsErrorEvent(es[k])) - 1)
           shown == SelectSeq(before, IsProgressEvent)
           dones == SelectSeq(before, IsDoneEvent)
       IN /\ ev.calls = [i \in 1..Len(shown) |-> ProgressOf(shown[i][2])]
          /\ IF Len(before) < Len(es)
               THEN /\ FailedOnErrorEvent(ev)
                    /\ ev.err.message = DetailOf(es[Len(before) + 1][2])
               ELSE /\ ev.err = NoError
                    /\ ev.response = dones[Len(dones)][2]

\* C17: when the operator dismisses the challenge the session is back to Idle: no
\* challenge pending, the pending params discarded, the entered code emptied, and
\* every message cleared (the challenge error, the stored download error, the status
\* text of the failed download).
C17_ResetClearsEverything ==
  ev.op = "dismissChallenge"
    => /\ ~requiresOTP
       /\ pendingDownload = Null
       /\ otpCode = <<>>
       /\ otpError = Null
       /\ error = Null
       /\ status # "Code 2FA requis"

\* a data line whose payload is not JSON
IsMalformedLine(line) == startsWith(line, "D") /\ ~IsJSON(Tail(line))
IsWellFormedLine(line) == ~IsMalformedLine(line)

IsJSONPair(pair) == IsJSON(pair[2])
IsJSONProgressPair(pair) == pair[1] = <<"progress">> /\ IsJSON(pair[2])

\* C18: a progress line whose payload is not JSON is skipped silently.  Whatever the
\* download has read and whatever chunk comes next, the turn of the loop ends as it
\* would were the malformed lines absent from it: same onProgress calls, same
\* recorded result, same error thrown or none, same pairs processed after them; and
\* the calls a settled download made are those of its well-formed progress pairs.
C18_MalformedProgressSkipped ==
  /\ \A j \in Slots :
       jobs[j].pc = "read"
         => \A k \in 1..(Len(jobs[j].stream) - jobs[j].pos) :
              LET job == jobs[j]
                  pieces == split(job.buffer \o SubSeq(job.stream, job.pos + 1, job.pos + k))
                  lines == SubSeq(pieces, 1, Len(pieces) - 1)
                  st == [eventType |-> <<>>, lastResult |-> job.lastResult,
                         calls |-> job.calls, processed |-> job.processed,
                         thrown |-> NoError]
                  present == forLines(st, lines)
                  absent == forLines(st, SelectSeq(lines, IsWellFormedLine))
              IN /\ present.calls = absent.calls
                 /\ present.lastResult = absent.lastResult
                 /\ present.thrown = absent.thrown
                 /\ present.eventType = absent.eventType
                 /\ SelectSeq(present.processed, IsJSONPair)
                      = SelectSeq(absent.processed, IsJSONPair)
  /\ ev.op = "settled"
       => LET shown == SelectSeq(ev.processed, IsJSONProgressPair)
          IN ev.calls = [i \in 1..Len(shown) |-> ProgressOf(shown[i][2][1])]

C18_Witness ==
  /\ SettledUncancelled
  /\ ev.processed = << <<<<"progress">>, <<Malformed>>>>, <<<<"progress">>, <<"p1">>>>,
                       <<<<"done">>, <<"d1">>>> >>
  /\ ev.calls = <<ProgressData["p1"]>>
  /\ ev.err = NoError

\* C19: while a download whose cancellation has not been requested is in flight, the
\* loading flag is true and the status text is not the cancelled text of an older
\* download: the settlement of a superseded download leaves the newer one's state.
C19_SupersededLeavesNewer ==
  Running # {} => (loading /\ status # "Telechargement annule")

\* C20: the session is never ChallengePending while a download is in flight.
C20_NoChallengeWhileInFlight ==
  (\E j \in Slots : jobs[j].pc # "free") => ~requiresOTP

====
